---- MODULE Spec2Model ----
(***************************************************************************)
(* Model of the typed task SDK sketch: task / createTask with its trigger  *)
(* and triggerAndWait operations, the sample tasks and their run handlers, *)
(* taskLibrary and createTriggerClient.                                    *)
(*                                                                         *)
(* An async function runs synchronously up to its first await; every await *)
(* suspends the function, and it is resumed by a later job of the event    *)
(* loop.  One action of the model is one such job.                         *)
(***************************************************************************)
EXTENDS Integers, Sequences, FiniteSets, TLC

\* Number of calls made from outside the handlers.
MaxCalls == 2
\* Cap on the number of suspended async activations of one call.
MaxDepth == 4

CallIds == 1..MaxCalls

-----------------------------------------------------------------------------
\* JavaScript values, all of one shape so that any two can be compared.

Undefined == [t |-> "undefined", s |-> "", f |-> {}]
Str(x) == [t |-> "string", s |-> x, f |-> {}]
Bool(x) == [t |-> "boolean", s |-> x, f |-> {}]
Obj(fields) == [t |-> "object", s |-> "", f |-> fields]

HasField(v, k) == \E e \in v.f : e[1] = k
Field(v, k) == IF HasField(v, k) THEN (CHOOSE e \in v.f : e[1] = k)[2] ELSE Undefined

EmptyPayload == Obj({})
FooBarPayload == Obj({<<"foo", Str("bar")>>})
UrlPayload == Obj({<<"url", Str("https://trigger.dev")>>})

\* Payloads handed to trigger / triggerAndWait from outside the handlers:
\* { foo: "bar" } for every task, and {} as well for a task with a schema
\* that rejects it and for the task that returns its payload.
PayloadsFor(t) ==
    IF t \in {"zodTaskOne", "echo"}
    THEN {EmptyPayload, FooBarPayload}
    ELSE {FooBarPayload}

-----------------------------------------------------------------------------
\* The id every trigger and triggerAndWait reports.
RunId == "run_1234"

NoKey == "<absent>"

\* TriggerTaskOptions handed in from outside the handlers: none, or an
\* idempotencyKey and a concurrencyKey.
NoOptions == [idempotencyKey |-> NoKey, concurrencyKey |-> NoKey]

OptionSets ==
    { NoOptions, [idempotencyKey |-> "key-1", concurrencyKey |-> "queue-1"] }

-----------------------------------------------------------------------------
\* Task definitions: the sample tasks, and two further inputs of task():
\* echo (no schema, returns its payload) and failing (its run rejects).

SampleTasks ==
    { "taskOne", "taskTwo", "userTaskOne", "userTaskTwo",
      "zodTaskOne", "zodTaskTwo", "valibotTaskOne", "valibotTaskTwo" }

TaskNames == SampleTasks \cup {"echo", "failing"}

TaskId(t) ==
    CASE t = "taskOne" -> "task-1"
      [] t = "taskTwo" -> "task-2"
      [] t = "userTaskOne" -> "user/task-1"
      [] t = "userTaskTwo" -> "user/task-2"
      [] t = "zodTaskOne" -> "zod/task-1"
      [] t = "zodTaskTwo" -> "zod/task-2"
      [] t = "valibotTaskOne" -> "valibot/task-1"
      [] t = "valibotTaskTwo" -> "valibot/task-2"
      [] t = "echo" -> "echo"
      [] t = "failing" -> "failing"
      [] t = "taskOneAgain" -> "task-1"

\* The schema option of each task: which object shape it declares.
Schema(t) ==
    CASE t \in {"zodTaskOne", "valibotTaskOne"} -> "foo"
      [] t \in {"zodTaskTwo", "valibotTaskTwo"} -> "fooIsAdmin"
      [] OTHER -> "none"

\* What the schema does with a raw payload: z.object / v.object accept an
\* object whose foo is a string, keep the declared keys only, and fill the
\* default of isAdmin (false for zod, true for valibot).
SchemaAccepts(t, p) ==
    Schema(t) = "none" \/ (p.t = "object" /\ Field(p, "foo").t = "string")

SchemaOutput(t, p) ==
    CASE Schema(t) = "none" -> p
      [] Schema(t) = "foo" -> Obj({<<"foo", Field(p, "foo")>>})
      [] Schema(t) = "fooIsAdmin" ->
            Obj({ <<"foo", Field(p, "foo")>>,
                  <<"isAdmin",
                    IF Field(p, "isAdmin").t = "boolean"
                    THEN Field(p, "isAdmin")
                    ELSE Bool(IF t = "zodTaskTwo" THEN "false" ELSE "true")>> })

\* One statement of a run handler.  Every trigger / triggerAndWait statement
\* is awaited; return and throw end the handler.
Ins(op, t, arg) == [op |-> op, task |-> t, arg |-> arg]

\* The run handler of each task, as the statements it executes for a payload.
run(t, payload) ==
    CASE t = "taskOne" ->
            << Ins("trigger", "taskTwo", UrlPayload),
               Ins("triggerAndWait", "taskTwo", UrlPayload),
               Ins("return", "", Str("foo-bar")) >>
      [] t = "taskTwo" ->
            << Ins("return", "",
                   Obj({<<"hello", Str("world")>>, <<"payload", payload>>})) >>
      [] t \in {"userTaskOne", "userTaskTwo"} ->
            << Ins("return", "", Str("foo-bar")) >>
      [] t \in {"zodTaskOne", "zodTaskTwo"} ->
            << Ins("return", "", Undefined) >>
      [] t = "valibotTaskOne" ->
            << Ins("trigger", "zodTaskOne", FooBarPayload),
               Ins("trigger", "zodTaskTwo", FooBarPayload),
               Ins("trigger", "valibotTaskTwo", FooBarPayload),
               Ins("return", "", Undefined) >>
      [] t = "valibotTaskTwo" ->
            << Ins("trigger", "valibotTaskOne", FooBarPayload),
               Ins("return", "", Undefined) >>
      [] t = "echo" ->
            << Ins("return", "", payload) >>
      [] t = "failing" ->
            << Ins("throw", "", Str("boom")) >>

-----------------------------------------------------------------------------
\* State.
\*   calls[c]  one call made from outside the handlers: what was called
\*             (op = "none" before the call is made), the suspended async
\*             activations it started (stack), the settled value about to be
\*             delivered to the top activation (pending; with an empty stack
\*             it is how the call's own promise settled), the run handlers
\*             it has invoked so far, with their params (execs), and the
\*             number of event-loop jobs that have run for it (jobs).
\*   library   the value the last taskLibrary call returned.
\*   client    the members of the object createTriggerClient returned.
\*   access    the outcome of the last member call made on the client.

VARIABLES calls, library, client, access

vars == <<calls, library, client, access>>

Settled(ok, v) == [ok |-> ok, v |-> v]

Activation(kind, t, p) == [kind |-> kind, task |-> t, payload |-> p, pc |-> 1]

Top(stack) == stack[Len(stack)]
Pop(stack) == SubSeq(stack, 1, Len(stack) - 1)

\* trigger's resolved value.
TriggerResult == Obj({<<"id", Str(RunId)>>})

\* A triggerAndWait that forgets the handler's output.
TaskRunResultWithoutOutput(output) ==
    Obj({<<"ok", Bool("true")>>, <<"id", Str(RunId)>>, <<"output", Undefined>>})

\* triggerAndWait's resolved value once the run handler has produced output.
TaskRunResult(output) ==
    Obj({<<"ok", Bool("true")>>, <<"id", Str(RunId)>>, <<"output", output>>})

\* The params object a run handler is invoked with.
RunFnParams(t, p) == [task |-> t, payload |-> p, run |-> RunId]

RECURSIVE Execute(_)

\* task.triggerAndWait(payload, options): calls params.run with the payload
\* as given, which runs the handler up to its first await, then awaits it.
triggerAndWait(cs, t, p) ==
    Execute([cs EXCEPT
        !.stack = @ \o << Activation("triggerAndWait", t, p),
                           Activation("run", t, p) >>,
        !.execs = Append(@, RunFnParams(t, p))])

\* A trigger that runs the task's handler and waits for it.
triggerRunningTheHandler(cs, t, p) == triggerAndWait(cs, t, p)

\* task.trigger(payload, options): resolves at once with the fixed id.
trigger(cs, t, p) ==
    [cs EXCEPT !.pending = Settled(TRUE, TriggerResult)]

\* Runs the statement the top run activation is at, up to the next await.
Execute(cs) ==
    LET fr == Top(cs.stack)
        ins == run(fr.task, fr.payload)[fr.pc]
    IN  CASE ins.op = "trigger" -> trigger(cs, ins.task, ins.arg)
          [] ins.op = "triggerAndWait" -> triggerAndWait(cs, ins.task, ins.arg)
          [] ins.op = "return" ->
                [cs EXCEPT !.stack = Pop(@), !.pending = Settled(TRUE, ins.arg)]
          [] ins.op = "throw" ->
                [cs EXCEPT !.stack = Pop(@), !.pending = Settled(FALSE, ins.arg)]

\* The job that resumes the top activation with the settled value it awaits.
\* No activation catches: a rejection ends the activation and passes on.
Continue(cs) ==
    LET fr == Top(cs.stack)
    IN  IF ~cs.pending.ok
        THEN [cs EXCEPT !.stack = Pop(@)]
        ELSE IF fr.kind = "triggerAndWait"
        THEN [cs EXCEPT !.stack = Pop(@),
                        !.pending = Settled(TRUE, TaskRunResult(cs.pending.v))]
        ELSE Execute([cs EXCEPT !.stack[Len(cs.stack)].pc = @ + 1])

Fresh == [stack |-> <<>>, pending |-> Settled(TRUE, Undefined), execs |-> <<>>]

NotCalled ==
    [op |-> "none", task |-> "", payload |-> Undefined, options |-> NoOptions,
     stack |-> <<>>, pending |-> Settled(TRUE, Undefined), execs |-> <<>>,
     jobs |-> 0]

CallState(op, t, p, o, cs, jobs) ==
    [op |-> op, task |-> t, payload |-> p, options |-> o,
     stack |-> cs.stack, pending |-> cs.pending, execs |-> cs.execs,
     jobs |-> jobs]

ExecState(call) ==
    [stack |-> call.stack, pending |-> call.pending, execs |-> call.execs]

Called(c) == calls[c].op # "none"
IsSettled(c) == Called(c) /\ calls[c].stack = <<>>
Resolved(c) == IsSettled(c) /\ calls[c].pending.ok
Rejected(c) == IsSettled(c) /\ ~calls[c].pending.ok

-----------------------------------------------------------------------------
\* Task libraries.  A record is held as its leaves: the path of keys that
\* leads to each task.  A library placed under a key of another keeps its
\* wrapper, so its leaves sit below key._def.record.

\* Cap on how deep libraries are placed inside libraries.
MaxNest == 2

Leaf(path, t) == [path |-> path, task |-> t]

\* taskLibrary(input): wraps the input as it is.
taskLibrary(input) == [_def |-> [record |-> input]]

\* The leaves a library contributes when it is the value of key k.
Nested(k, lib) ==
    { Leaf(<<k, "_def", "record">> \o e.path, e.task) : e \in lib._def.record }

myTaskLibrary ==
    taskLibrary({Leaf(<<"myTasks", "taskOne">>, "taskOne"),
                 Leaf(<<"myTasks", "taskTwo">>, "taskTwo")})

userTaskLibrary ==
    taskLibrary({Leaf(<<"userTaskOne">>, "userTaskOne"),
                 Leaf(<<"userTaskTwo">>, "userTaskTwo")})

zodTaskLibrary ==
    taskLibrary({Leaf(<<"zodTaskOne">>, "zodTaskOne"),
                 Leaf(<<"zodTaskTwo">>, "zodTaskTwo")})

valibotTaskLibrary ==
    taskLibrary({Leaf(<<"valibotTaskOne">>, "valibotTaskOne"),
                 Leaf(<<"valibotTaskTwo">>, "valibotTaskTwo")})

\* The exported sample library.
SampleLibrary ==
    taskLibrary(Nested("foo", myTaskLibrary) \cup Nested("bar", userTaskLibrary)
                \cup Nested("zod", zodTaskLibrary)
                \cup Nested("valibot", valibotTaskLibrary))

\* The path the client type gives a leaf: the wrappers of nested libraries
\* are dropped, lib is put in front and the operation behind.
RECURSIVE Decorated(_)
Decorated(path) ==
    IF path = <<>> THEN <<>>
    ELSE IF Len(path) >= 2 /\ path[1] = "_def" /\ path[2] = "record"
    THEN Decorated(SubSeq(path, 3, Len(path)))
    ELSE <<path[1]>> \o Decorated(Tail(path))

RunsRetrieve == <<"runs", "retrieve">>

ClientPaths(lib) ==
    { <<"lib">> \o Decorated(e.path) \o <<"trigger">> : e \in lib._def.record }
        \cup {RunsRetrieve}

\* createTriggerClient(options): an object with no members.
createTriggerClient == [created |-> TRUE, members |-> {}]

\* Calling client.<path>(...): reading a member of a missing member, or
\* calling a missing member, throws a TypeError.
MemberCall(obj, path) == IF path \in obj.members THEN "called" ELSE "TypeError"

RECURSIVE Wrappers(_)
Wrappers(path) ==
    IF path = <<>> THEN 0
    ELSE (IF path[1] = "_def" THEN 1 ELSE 0) + Wrappers(Tail(path))

NestDepth(lib) ==
    IF lib._def.record = {} THEN 0
    ELSE CHOOSE n \in 0..MaxNest + 1 :
            /\ \E e \in lib._def.record : Wrappers(e.path) = n
            /\ \A e \in lib._def.record : Wrappers(e.path) <= n

NoAccess == [path |-> <<>>, outcome |-> "none"]

Init ==
    /\ calls = [c \in CallIds |-> NotCalled]
    /\ library = SampleLibrary
    /\ client = [created |-> FALSE, members |-> {}]
    /\ access = NoAccess

Trigger(c, t, p, o) ==
    /\ ~Called(c)
    /\ \A d \in CallIds : d < c => Called(d)
    /\ calls' = [calls EXCEPT ![c] = CallState("trigger", t, p, o, trigger(Fresh, t, p), 0)]
    /\ UNCHANGED <<library, client, access>>

TriggerAndWait(c, t, p, o) ==
    /\ ~Called(c)
    /\ \A d \in CallIds : d < c => Called(d)
    /\ calls' = [calls EXCEPT
                   ![c] = CallState("triggerAndWait", t, p, o,
                                    triggerAndWait(Fresh, t, p), 0)]
    /\ UNCHANGED <<library, client, access>>

\* Call c has a suspended activation whose awaited value has settled.
JobReady(c) ==
    /\ Called(c)
    /\ calls[c].stack # <<>>
    /\ Len(calls[c].stack) < MaxDepth

Resume(c) ==
    /\ JobReady(c)
    /\ calls' = [calls EXCEPT
                   ![c] = CallState(@.op, @.task, @.payload, @.options,
                                    Continue(ExecState(@)), @.jobs + 1)]
    /\ UNCHANGED <<library, client, access>>

Next ==
    \/ \E c \in CallIds, t \in TaskNames, o \in OptionSets : \E p \in PayloadsFor(t) :
            Trigger(c, t, p, o)
    \/ \E c \in CallIds, t \in TaskNames, o \in OptionSets : \E p \in PayloadsFor(t) :
            TriggerAndWait(c, t, p, o)
    \/ \E c \in CallIds : Resume(c)

Spec == Init /\ [][Next]_vars

-----------------------------------------------------------------------------
\* Tasks handed to taskLibrary: two sample tasks and a second task defined
\* with the id of taskOne.
LibraryTasks == {"taskOne", "taskTwo", "taskOneAgain"}

\* taskLibrary({ foo: a, bar: b }), where a is a task or left out and b is a
\* task, the library built last, or left out.
TaskLibrary(a, b) ==
    /\ a \in LibraryTasks \cup {"absent"}
    /\ b \in LibraryTasks \cup {"absent", "library"}
    /\ b = "library" => NestDepth(library) < MaxNest
    /\ library' = taskLibrary(
            (IF a \in LibraryTasks THEN {Leaf(<<"foo">>, a)} ELSE {})
            \cup (IF b \in LibraryTasks THEN {Leaf(<<"bar">>, b)}
                  ELSE IF b = "library" THEN Nested("bar", library) ELSE {}))
    /\ UNCHANGED <<calls, client, access>>

CreateTriggerClient ==
    /\ client' = createTriggerClient
    /\ UNCHANGED <<calls, library, access>>

ClientCall(path) ==
    /\ client.created
    /\ access' = [path |-> path, outcome |-> MemberCall(client, path)]
    /\ UNCHANGED <<calls, library, client>>

LibNext ==
    \/ \E a, b \in LibraryTasks \cup {"absent", "library"} : TaskLibrary(a, b)
    \/ CreateTriggerClient
    \/ \E path \in ClientPaths(library) : ClientCall(path)

LibSpec == Init /\ [][LibNext]_vars

-----------------------------------------------------------------------------
\* Properties of trigger and triggerAndWait (checked under Spec).

Last(seq) == seq[Len(seq)]

\* The statement that ends the handler of the task call c names.
HandlerEnd(c) == Last(run(calls[c].task, calls[c].payload))

\* The value call c's promise settled with.
Result(c) == calls[c].pending.v

IsWait(c) == calls[c].op = "triggerAndWait"
IsTrigger(c) == calls[c].op = "trigger"

\* The root handler of call c has been invoked and has not finished.
Running(c) == Len(calls[c].stack) >= 2

\* The handler invocations of call c, as <<call, position>>.
Invocations(c) == { <<c, i>> : i \in DOMAIN calls[c].execs }

AllPayloads == {EmptyPayload, FooBarPayload, UrlPayload}

\* C1: once a triggerAndWait call has settled on a task whose handler ends by
\* returning X, the call has resolved with ok = true and output = X; for the
\* task without a schema that returns its payload, the output is the payload
\* passed in.
C1_ReturnedOutputIsReported ==
    \A c \in CallIds :
        (IsWait(c) /\ IsSettled(c) /\ HandlerEnd(c).op = "return") =>
            /\ Resolved(c)
            /\ Field(Result(c), "ok") = Bool("true")
            /\ Field(Result(c), "output") = HandlerEnd(c).arg
            /\ calls[c].task = "echo" => Field(Result(c), "output") = calls[c].payload

C1_Witness ==
    \E c \in CallIds :
        /\ IsWait(c) /\ calls[c].task = "echo" /\ calls[c].payload = FooBarPayload
        /\ Resolved(c)
        /\ Len(calls[c].execs) = 1
        /\ Field(Result(c), "output") = FooBarPayload

\* C2: a triggerAndWait call whose handler throws still resolves, with
\* ok = false and error = the cause the handler raised.
C2_HandlerFailureResolves ==
    \A c \in CallIds :
        (IsWait(c) /\ IsSettled(c) /\ HandlerEnd(c).op = "throw") =>
            /\ Resolved(c)
            /\ Field(Result(c), "ok") = Bool("false")
            /\ Field(Result(c), "error") = HandlerEnd(c).arg

\* C3: two settled trigger calls on one task with one idempotencyKey report
\* the same run id, and the task's handler has been invoked exactly once for
\* that key.
C3_SameKeyOneRun ==
    \A c1, c2 \in CallIds :
        ( /\ c1 < c2
          /\ IsTrigger(c1) /\ IsTrigger(c2) /\ IsSettled(c1) /\ IsSettled(c2)
          /\ calls[c1].task = calls[c2].task
          /\ calls[c1].options.idempotencyKey # NoKey
          /\ calls[c1].options.idempotencyKey = calls[c2].options.idempotencyKey )
        =>
            /\ Field(Result(c1), "id") = Field(Result(c2), "id")
            /\ Cardinality(
                 UNION { { x \in Invocations(c) :
                             calls[c].execs[x[2]].task = calls[c1].task } :
                         c \in { d \in CallIds :
                                   /\ Called(d)
                                   /\ calls[d].options.idempotencyKey
                                        = calls[c1].options.idempotencyKey } }) = 1

\* C4: a call whose payload the task's schema rejects invokes no handler and
\* rejects with InvalidPayload, and every handler invocation receives the
\* schema's output for an accepted payload.
C4_RejectedPayloadNeverRuns ==
    /\ \A c \in CallIds :
          (Called(c) /\ ~SchemaAccepts(calls[c].task, calls[c].payload)) =>
              /\ calls[c].execs = <<>>
              /\ IsSettled(c) => (Rejected(c) /\ Result(c) = Str("InvalidPayload"))
    /\ \A c \in CallIds : \A x \in Invocations(c) :
          LET e == calls[c].execs[x[2]]
          IN  \E raw \in AllPayloads :
                 SchemaAccepts(e.task, raw) /\ e.payload = SchemaOutput(e.task, raw)

\* C5: two calls that share a concurrencyKey never have their handlers
\* running at the same time, and of two such triggerAndWait calls the later
\* one's handler is not invoked before the earlier one's.
C5_OneRunningPerKey ==
    \A c1, c2 \in CallIds :
        ( /\ c1 < c2 /\ Called(c1) /\ Called(c2)
          /\ calls[c1].options.concurrencyKey # NoKey
          /\ calls[c1].options.concurrencyKey = calls[c2].options.concurrencyKey )
        =>
            /\ ~(Running(c1) /\ Running(c2))
            /\ (IsWait(c1) /\ IsWait(c2) /\ calls[c2].execs # <<>>)
                  => calls[c1].execs # <<>>

\* C7: once a trigger call has returned and no job of it is left to run,
\* the task's handler has been invoked for it.
C7_TriggeredHandlerRuns ==
    \A c \in CallIds :
        (IsTrigger(c) /\ IsSettled(c)) =>
            /\ Resolved(c)
            /\ \E x \in Invocations(c) : calls[c].execs[x[2]].task = calls[c].task

\* C8: two resolved calls that no shared idempotencyKey deduplicates report
\* different run ids, and no two handler invocations are given the same
\* meta.run.
C8_RunIdsUnique ==
    /\ \A c1, c2 \in CallIds :
          ( /\ c1 # c2 /\ Resolved(c1) /\ Resolved(c2)
            /\ ~( /\ calls[c1].task = calls[c2].task
                  /\ calls[c1].options.idempotencyKey # NoKey
                  /\ calls[c1].options.idempotencyKey
                       = calls[c2].options.idempotencyKey ) )
          => Field(Result(c1), "id") # Field(Result(c2), "id")
    /\ \A c1, c2 \in CallIds : \A x \in Invocations(c1), y \in Invocations(c2) :
          x # y => calls[c1].execs[x[2]].run # calls[c2].execs[y[2]].run

-----------------------------------------------------------------------------
\* Properties of taskLibrary and createTriggerClient (checked under LibSpec).

\* C6: no two leaves of a built library are tasks with the same id.
C6_BuiltLibraryHasUniqueIds ==
    \A e1, e2 \in library._def.record :
        e1 # e2 => TaskId(e1.task) # TaskId(e2.task)

\* C9: a created client has runs.retrieve and, at the path of every task of
\* the library, trigger; and no call of such a member fails on a missing
\* member.
C9_ClientExposesOperations ==
    /\ client.created => ClientPaths(library) \subseteq client.members
    /\ access.outcome # "TypeError"

====
